---------------------------- MODULE Spec2Model ----------------------------
(***************************************************************************)
(* The two teaching notebooks as state machines.                           *)
(*                                                                         *)
(*   nb = 1   session 1, clustering of 3k PBMCs      (src/unnamed/part_001)*)
(*   nb = 2   session 2, Harmony integration (src/session2_harmony.ipynb)  *)
(*                                                                         *)
(* A run executes the code cells of one notebook from top to bottom.  A    *)
(* step of the model is one state-changing statement of a code cell; the   *)
(* kernel begins a step, the statement acts on the state, and the step     *)
(* either returns or raises.  No cell catches an exception, so a raise     *)
(* ends the run.                                                           *)
(*                                                                         *)
(* The data set is far larger than TLC can enumerate, so the model tracks  *)
(* a window of it: NCells cells and the genes of Genes.  What the          *)
(* untracked genes contribute to a cell (their summed counts and how many  *)
(* of them are detected) is part of the cell's input profile.  All         *)
(* mitochondrial and ribosomal genes are inside the window.                *)
(*                                                                         *)
(* Matrix values are integers: a quotient is the integer quotient and the  *)
(* natural logarithm is replaced by the integer binary logarithm, which    *)
(* keeps the order of values and log1p(0) = 0 but not the magnitudes.      *)
(***************************************************************************)
EXTENDS Integers, Sequences, FiniteSets, TLC

VARIABLES
    nb,         \* the notebook that is run
    pc,         \* index in Program of the step to run next
    executing,  \* the steps that have begun and not yet returned or raised
    status,     \* "ok" | "failed"
    input,      \* the data set the run finds on disk: cell -> profile
    adata,      \* the object bound to the name `adata`
    nextId,     \* identity of the next object to be created
    cache,      \* whether the cache file of sc.read_10x_mtx exists
    disk,       \* files and directories created or written by the run
    reads,      \* files and directories read by the run
    result,     \* content of the .h5ad result file
    call,       \* the loop state of the library call that is executing
    hist        \* history: how often adata.write ran, the phases started

vars == <<nb, pc, executing, status, input, adata, nextId, cache, disk, reads, result,
          call, hist>>

-----------------------------------------------------------------------------
(* Bounds of the model *)

NCells == 2

Cells == 1 .. NCells

-----------------------------------------------------------------------------
(* Program constants *)

PctMtMax == 20
MinGenes == 300
TargetSum == 10000
MaxValue == 10
NTopGenes == 2000
max_iter_harmony == 20

-----------------------------------------------------------------------------
(* Gene names are sequences of characters, so that str.startswith is        *)
(* computed on them.                                                        *)

MT_CO1 == <<"M", "T", "-", "C", "O", "1">>
RPS3 == <<"R", "P", "S", "3">>
RPL5 == <<"R", "P", "L", "5">>
MRPS5 == <<"M", "R", "P", "S", "5">>
MTOR == <<"M", "T", "O", "R">>
CD3D == <<"C", "D", "3", "D">>

Genes == {MT_CO1, RPS3, RPL5, MRPS5, MTOR, CD3D}

IsPrefix(p, s) == Len(p) <= Len(s) /\ \A i \in 1 .. Len(p) : s[i] = p[i]

\* pandas str.startswith(prefixes): some prefix of the tuple starts the name
StartsWith(name, prefixes) == \E p \in prefixes : IsPrefix(p, name)

MtPrefixes == {<<"M", "T", "-">>}
RiboPrefixes == {<<"R", "P", "S">>, <<"R", "P", "L">>}

-----------------------------------------------------------------------------
(* Input data: one profile per tracked cell.  counts is the cell's row of   *)
(* the count matrix over Genes; rest is the sum of its counts over the      *)
(* untracked genes and restGenes the number of untracked genes detected.    *)

Prof(mt, rps, rpl, mrps, mtor, cd3d, r, n) ==
    [counts |-> (MT_CO1 :> mt) @@ (RPS3 :> rps) @@ (RPL5 :> rpl) @@
                (MRPS5 :> mrps) @@ (MTOR :> mtor) @@ (CD3D :> cd3d),
     rest |-> r, restGenes |-> n]

\* 2.5 % mitochondrial counts, 304 detected genes
P_ok == Prof(10, 2, 0, 1, 0, 3, 384, 300)
\* no mitochondrial counts, 303 detected genes
P_ok2 == Prof(0, 0, 4, 0, 2, 0, 394, 301)
\* exactly 20 % mitochondrial counts (80 of 400), 301 detected genes
P_edge == Prof(80, 1, 1, 0, 1, 0, 317, 297)
\* 20.25 % mitochondrial counts (81 of 400), 301 detected genes
P_high == Prof(81, 1, 1, 0, 1, 0, 316, 297)
\* 299 detected genes
P_few == Prof(0, 2, 1, 0, 0, 1, 396, 296)
\* exactly 300 detected genes
P_300 == Prof(0, 2, 1, 0, 0, 1, 396, 297)

\* the cells a 10x directory may hold: inside, at and beyond the thresholds
\* of the quality control
Profiles10x == {P_ok, P_edge, P_high, P_few, P_300}

RECURSIVE SumOver(_, _)
SumOver(f, S) ==
    IF S = {} THEN 0
    ELSE LET x == CHOOSE y \in S : TRUE IN f[x] + SumOver(f, S \ {x})

Detected(row, S) == Cardinality({g \in S : row[g] > 0})

ProfTotal(p) == SumOver(p.counts, Genes) + p.rest
ProfMt(p) == SumOver(p.counts, {g \in Genes : StartsWith(g, MtPrefixes)})
ProfNGenes(p) == Detected(p.counts, Genes) + p.restGenes

\* session2_SMC_KUL_immune_RAWcounts.h5ad holds cells that were filtered
\* before: less than 10 % mitochondrial counts, more than 300 detected genes
ProfilesH5ad ==
    {p \in Profiles10x \cup {P_ok2} :
        100 * ProfMt(p) < 10 * ProfTotal(p) /\ ProfNGenes(p) > 300}

-----------------------------------------------------------------------------
(* The programs: the state-changing statements of the code cells, in cell   *)
(* order.  phase is the pipeline phase a statement belongs to ("other" for  *)
(* bookkeeping and plots), arg the file or key it names.  Cells that only   *)
(* display a value are not steps.                                           *)

S(o, ph, a) == [op |-> o, phase |-> ph, arg |-> a]

Program1 == <<
    S("mkdir", "other", "processed_data"),
    S("mkdir", "other", "processed_data/figures"),
    S("read_10x_mtx", "load", "filtered_gene_bc_matrices/hg19"),
    S("var_names_make_unique", "other", ""),
    S("flag_genes", "other", ""),
    S("calculate_qc_metrics", "other", ""),
    S("plot", "other", "processed_data/figures/violinQC_covariates.pdf"),
    S("filter_mt", "filter", ""),
    S("filter_cells", "filter", ""),
    S("remove_mt", "filter", ""),
    S("remove_ribo", "filter", ""),
    S("keep_layer", "normalize", "raw"),
    S("normalize_total", "normalize", ""),
    S("keep_layer", "normalize", "normalised"),
    S("log1p", "normalize", ""),
    S("keep_layer", "normalize", "log1p"),
    S("set_raw", "normalize", ""),
    S("highly_variable_genes", "normalize", ""),
    S("regress_out", "normalize", ""),
    S("scale", "normalize", ""),
    S("pca", "reduce", ""),
    S("neighbors", "reduce", "X_pca"),
    S("umap", "reduce", ""),
    S("leiden", "cluster", ""),
    S("plot", "other", "processed_data/figures/umapclustering.pdf"),
    S("rank_genes_groups", "annotate", "rank_genes_wilcoxon"),
    S("dotplot", "annotate", "processed_data/figures/dotplot_marker_dotplot.pdf"),
    S("plot", "other", "processed_data/figures/umapmarkers.pdf"),
    S("excel", "annotate", "processed_data/pbmc3k_general_clustering_pval0.05_log2fc1.xlsx"),
    S("annotate", "annotate", "Annotation"),
    S("set_colors", "other", "Annotation_colors"),
    S("plot", "other", "processed_data/figures/umapAnnotation.pdf"),
    S("write", "save", "processed_data/pbmc3k_clustering.h5ad") >>

Program2 == <<
    S("read", "load", "session2_SMC_KUL_immune_RAWcounts.h5ad"),
    S("keep_layer", "normalize", "raw"),
    S("normalize_total", "normalize", ""),
    S("keep_layer", "normalize", "normalised"),
    S("log1p", "normalize", ""),
    S("keep_layer", "normalize", "log1p"),
    S("set_raw", "normalize", ""),
    S("highly_variable_genes", "normalize", ""),
    S("regress_out", "normalize", ""),
    S("scale", "normalize", ""),
    S("pca", "reduce", ""),
    S("neighbors", "reduce", "X_pca"),
    S("umap", "reduce", ""),
    S("harmony", "integrate", ""),
    S("neighbors", "reduce", "X_pca_harmony"),
    S("umap", "reduce", ""),
    S("leiden", "cluster", ""),
    S("rank_genes_groups", "annotate", "rank_genes_groups"),
    S("excel", "annotate", "DE_results_cellType.xlsx"),
    S("dotplot", "annotate", "figures/dotplot_marker_dotplot.pdf"),
    S("annotate", "annotate", "Cell_type"),
    S("subset", "subset", "T-NK-ILC"),
    S("rank_genes_groups", "annotate", "rank_genes_groups_T"),
    S("excel", "annotate", "DE_results_TNKILC.xlsx"),
    S("del_dendrogram", "other", "dendrogram_leiden"),
    S("dotplot", "annotate", "figures/dotplot_marker_dotplot_TNKILC.pdf"),
    S("annotate", "annotate", "Cell_type"),
    S("write", "save", "SMC_KUL_immune_subset_TNKILC.h5ad") >>

\* a notebook whose last two statements are exchanged
ProgramSaveEarly ==
    LET p == IF nb = 1 THEN Program1 ELSE Program2
        n == Len(p)
    IN  [i \in 1 .. n |-> IF i = n - 1 THEN p[n] ELSE IF i = n THEN p[n - 1] ELSE p[i]]

Program == IF nb = 1 THEN Program1 ELSE Program2

-----------------------------------------------------------------------------
(* The AnnData object.                                                      *)
(*   id, is_view  identity of the Python object bound to `adata`, and       *)
(*                whether it is a view of another object                    *)
(*   obs, var     the tracked cells and genes on its axes                   *)
(*   var_rest     the number of untracked genes on its gene axis            *)
(*   X            the main matrix, cell -> gene -> value                    *)
(*   rest         per cell, what the untracked genes hold of its loaded     *)
(*                counts: their sum, and how many of them are detected      *)
(*   layers       layer name -> matrix                                      *)
(*   raw          the .raw attribute: whether set, its genes (tracked, and  *)
(*                the number of untracked ones), its matrix                 *)
(*   shared       the slots ("raw" or a layer name) whose array is the very *)
(*                array of X, so that an in-place change of X shows there   *)
(*   obsc, varc   the columns of .obs and .var                              *)
(*   obsm         key -> array with one row per cell                        *)
(*   uns          the keys of .uns                                          *)

NoRaw == [set |-> FALSE, var |-> {}, var_rest |-> 0, X |-> <<>>]

NoAdata ==
    [id |-> 0, is_view |-> FALSE, obs |-> {}, var |-> {}, var_rest |-> 0, X |-> <<>>,
     rest |-> <<>>, layers |-> <<>>, raw |-> NoRaw, shared |-> {},
     obsc |-> <<>>, varc |-> <<>>, obsm |-> <<>>, uns |-> {}]

\* f with key k set to v
Put(f, k, v) == (k :> v) @@ f

Rows(m, O) == [c \in O |-> m[c]]
Cols(m, V) == [c \in DOMAIN m |-> [g \in V |-> m[c][g]]]

\* a percentage kept as an exact quotient num / den
Pct(part, whole) == [num |-> 100 * part, den |-> whole]
PctLess(q, k) == q.num < k * q.den

\* the cells of O in the order of the rows of the object
RECURSIVE CellOrder(_)
CellOrder(O) ==
    IF O = {} THEN <<>>
    ELSE LET first == CHOOSE c \in O : \A d \in O : c <= d
         IN  <<first>> \o CellOrder(O \ {first})

\* a two-dimensional array: what its rows and its columns stand for, in
\* their order, and what its values are
Array(r, c, v) == [rows |-> r, cols |-> c, values |-> v]

\* np.transpose of a two-dimensional array
Transpose(a) == [a EXCEPT !.rows = a.cols, !.cols = a.rows]

\* the tracked principal components and the UMAP coordinates
PCs == <<"PC1", "PC2">>
UmapDims == <<"UMAP1", "UMAP2">>

\* adata[keep, :] : the cells of keep, every per-cell field restricted
SubsetObs(ad, keep) ==
    [ad EXCEPT !.obs = keep,
               !.obsm = [k \in DOMAIN ad.obsm |->
                            [ad.obsm[k] EXCEPT !.rows = SelectSeq(@, LAMBDA c : c \in keep)]],
               !.X = Rows(ad.X, keep),
               !.rest = Rows(ad.rest, keep),
               !.layers = [l \in DOMAIN ad.layers |-> Rows(ad.layers[l], keep)],
               !.raw = IF ad.raw.set THEN [ad.raw EXCEPT !.X = Rows(ad.raw.X, keep)]
                       ELSE ad.raw,
               !.obsc = [k \in DOMAIN ad.obsc |-> Rows(ad.obsc[k], keep)]]

\* adata[:, keep] : the genes of keep; .raw keeps its own genes
SubsetVar(ad, keep) ==
    [ad EXCEPT !.var = keep,
               !.X = Cols(ad.X, keep),
               !.layers = [l \in DOMAIN ad.layers |-> Cols(ad.layers[l], keep)],
               !.varc = [k \in DOMAIN ad.varc |-> Rows(ad.varc[k], keep)]]

\* a new object holding copies of every array of ad
CopyOf(ad, newId) == [ad EXCEPT !.id = newId, !.is_view = FALSE, !.shared = {}]

\* a view of ad: a new object that refers to the arrays of ad
ViewOf(ad, newId) == [ad EXCEPT !.id = newId, !.is_view = TRUE]

\* a write to a view first makes it an object of its own (copy on write);
\* the Python object stays the same
Actual(ad) == [ad EXCEPT !.is_view = FALSE, !.shared = {}]

\* an in-place change of the array of X: every slot that shares the array
\* changes with it
WriteX(ad, newX) ==
    [ad EXCEPT !.X = newX,
               !.layers = [l \in DOMAIN ad.layers |->
                              IF l \in ad.shared THEN newX ELSE ad.layers[l]],
               !.raw = IF "raw" \in ad.shared THEN [ad.raw EXCEPT !.X = newX]
                       ELSE ad.raw]

\* the numbers of genes a data set may hold outside the tracked ones: fewer
\* than n_top_genes, or more
GenesUntracked == {1990, 2500}

\* the count matrix a data set holds
CountsOf(inp) == [c \in DOMAIN inp |-> inp[c].counts]

\* what the untracked genes hold of each cell of a data set
RestOf(inp) == [c \in DOMAIN inp |-> [counts |-> inp[c].rest, genes |-> inp[c].restGenes]]

\* the per-cell quality metrics of sc.pp.calculate_qc_metrics, from the
\* matrix m over the genes V, of which mt are mitochondrial, and the rest
QcColumns(m, V, mt, rst) ==
    LET total(c) == SumOver(m[c], V) + rst[c].counts
    IN  [n_genes_by_counts |-> [c \in DOMAIN m |-> Detected(m[c], V) + rst[c].genes],
         total_counts |-> [c \in DOMAIN m |-> total(c)],
         pct_counts_mt |-> [c \in DOMAIN m |-> Pct(SumOver(m[c], V \cap mt), total(c))]]

-----------------------------------------------------------------------------
(* Files.  A file or directory is named by its path relative to the         *)
(* directory the data are loaded from; kind tells what it is.               *)

File(k, p) == [kind |-> k, path |-> p]

\* sc.read_10x_mtx(cache=True) keeps the matrix it parsed in this file
CacheFile == File("cache", "cache/filtered_gene_bc_matrices-hg19-matrix.h5ad")

NoResult == [written |-> FALSE, path |-> "", data |-> NoAdata]

-----------------------------------------------------------------------------
(* The kernel *)

Cur == Program[pc]

Running(o) == status = "ok" /\ pc \in executing /\ Cur.op = o

Done == status = "ok" /\ executing = {} /\ pc = Len(Program) + 1

\* no library call with a loop is executing
NoCall == [iter |-> 0, converged |-> FALSE]

\* the statement returns: the kernel moves on to the next one
Return ==
    /\ pc' = pc + 1
    /\ executing' = {}
    /\ call' = NoCall
    /\ hist' = [hist EXCEPT !.finished = @ \cup {Cur.phase}]
    /\ UNCHANGED <<nb, status, input>>

\* the statement leaves the files alone
NoFiles == UNCHANGED <<cache, disk, reads, result>>

Init ==
    /\ nb \in {1, 2}
    /\ pc = 1
    /\ executing = {}
    /\ status = "ok"
    /\ input \in [Cells -> IF nb = 1 THEN Profiles10x ELSE ProfilesH5ad]
    /\ adata = NoAdata
    /\ nextId = 1
    \* session 1 may find the cache file of an earlier run
    /\ cache \in IF nb = 1 THEN BOOLEAN ELSE {FALSE}
    /\ disk = {}
    /\ reads = {}
    /\ result = NoResult
    /\ call = NoCall
    /\ hist = [writes |-> 0, order |-> <<>>, finished |-> {}]

\* a kernel that runs the statement again after an error
BeginAgain ==
    /\ executing = {}
    /\ pc <= Len(Program)
    /\ executing' = {pc}
    /\ status' = "ok"
    /\ hist' = [hist EXCEPT !.order =
                   IF \E i \in 1 .. Len(@) : @[i] = Cur.phase THEN @
                   ELSE Append(@, Cur.phase)]
    /\ UNCHANGED <<nb, pc, input, adata, nextId, cache, disk, reads, result, call>>

\* a kernel that begins the statement after the one that is still running
BeginEager ==
    /\ status = "ok"
    /\ pc + Cardinality(executing) <= Len(Program)
    /\ executing' = executing \cup {pc + Cardinality(executing)}
    /\ hist' = [hist EXCEPT !.order =
                   IF \E i \in 1 .. Len(@) : @[i] = Cur.phase THEN @
                   ELSE Append(@, Cur.phase)]
    /\ UNCHANGED <<nb, pc, status, input, adata, nextId, cache, disk, reads, result, call>>

\* the kernel begins the next statement once the previous one has returned
Begin ==
    /\ status = "ok"
    /\ executing = {}
    /\ pc <= Len(Program)
    /\ executing' = {pc}
    /\ hist' = [hist EXCEPT !.order =
                   IF \E i \in 1 .. Len(@) : @[i] = Cur.phase THEN @
                   ELSE Append(@, Cur.phase)]
    /\ UNCHANGED <<nb, pc, status, input, adata, nextId, cache, disk, reads, result, call>>

\* a failure that removes the files the run has written so far
RaiseAndRollBack ==
    /\ status = "ok"
    /\ pc \in executing
    /\ status' = "failed"
    /\ executing' = {}
    /\ call' = NoCall
    /\ disk' = {}
    /\ UNCHANGED <<nb, pc, input, adata, nextId, cache, reads, result, hist>>

\* the statement raises: no cell catches it, the run ends
Raise ==
    /\ status = "ok"
    /\ pc \in executing
    /\ status' = "failed"
    /\ executing' = {}
    /\ call' = NoCall
    /\ UNCHANGED <<nb, pc, input, adata, nextId, cache, disk, reads, result, hist>>

\* DIR2SAVE.mkdir / FIG2SAVE.mkdir (parents=True, exist_ok=True)
Mkdir ==
    /\ Running("mkdir")
    /\ disk' = disk \cup {File("dir", Cur.arg)}
    /\ Return
    /\ UNCHANGED <<adata, nextId, cache, reads, result>>

\* adata = sc.read_10x_mtx(..., var_names="gene_symbols", cache=True)
Read10x ==
    /\ Running("read_10x_mtx")
    \* genes.tsv and barcodes.tsv are read from the directory in any case; a
    \* cache file that exists is read in place of matrix.mtx, one that does
    \* not is written
    /\ IF cache
       THEN reads' = reads \cup {File("10x", Cur.arg), CacheFile} /\ disk' = disk
       ELSE /\ reads' = reads \cup {File("10x", Cur.arg)}
            /\ disk' = disk \cup {File("dir", "cache"), CacheFile}
    /\ cache' = TRUE
    /\ \E n \in GenesUntracked :
         adata' = [NoAdata EXCEPT !.id = nextId, !.obs = Cells, !.var = Genes,
                                  !.var_rest = n,
                                  !.X = CountsOf(input),
                                  !.rest = RestOf(input)]
    /\ nextId' = nextId + 1
    /\ Return
    /\ UNCHANGED result

\* adata = sc.read('.../session2_SMC_KUL_immune_RAWcounts.h5ad'): the file
\* holds the counts and the quality metrics of its cells
ReadH5ad ==
    /\ Running("read")
    /\ reads' = reads \cup {File("h5ad", Cur.arg)}
    /\ \E n \in GenesUntracked :
       LET m == CountsOf(input)
           mt == {g \in Genes : StartsWith(g, MtPrefixes)}
           qc == QcColumns(m, Genes, mt, RestOf(input))
       IN adata' = [NoAdata EXCEPT !.id = nextId, !.obs = Cells, !.var = Genes,
                                   !.var_rest = n,
                                   !.X = m,
                                   !.rest = RestOf(input),
                                   !.obsc = ("n_genes_by_counts" :> qc.n_genes_by_counts)
                                         @@ ("total_counts" :> qc.total_counts)
                                         @@ ("pct_counts_mt" :> qc.pct_counts_mt)]
    /\ nextId' = nextId + 1
    /\ Return
    /\ UNCHANGED <<cache, disk, result>>

-----------------------------------------------------------------------------
(* Session 1: quality control and filtering *)

\* a write to the object: a view becomes an object of its own first
Writable(ad) == IF ad.is_view THEN Actual(ad) ELSE ad

\* adata.var_names_make_unique(): a repeated name gets a suffix; the names
\* of Genes are distinct, so none changes
MakeUnique ==
    /\ Running("var_names_make_unique")
    /\ adata' = Writable(adata)
    /\ Return
    /\ UNCHANGED nextId /\ NoFiles

\* adata.var_names.str.startswith("MT-")
IsMt(g) == StartsWith(g, MtPrefixes)

\* adata.var_names.str.contains("RPS|RPL")
IsRiboAnywhere(g) ==
    \E i \in 1 .. Len(g) : StartsWith(SubSeq(g, i, Len(g)), RiboPrefixes)

\* adata.var_names.str.startswith(("RPS", "RPL"))
IsRibo(g) == StartsWith(g, RiboPrefixes)

\* adata.var["mt"] = ... ; adata.var["ribo"] = ...
FlagGenes ==
    /\ Running("flag_genes")
    /\ adata' = [Writable(adata) EXCEPT
                    !.varc = Put(Put(@, "mt", [g \in adata.var |-> IsMt(g)]),
                                 "ribo", [g \in adata.var |-> IsRibo(g)])]
    /\ Return
    /\ UNCHANGED nextId /\ NoFiles

\* sc.pp.calculate_qc_metrics(adata, qc_vars=["mt", "ribo"], inplace=True)
QcMetrics ==
    /\ Running("calculate_qc_metrics")
    /\ LET mt == {g \in adata.var : adata.varc["mt"][g]}
           qc == QcColumns(adata.X, adata.var, mt, adata.rest)
       IN adata' = [Writable(adata) EXCEPT
                       !.obsc = Put(Put(Put(@, "n_genes_by_counts", qc.n_genes_by_counts),
                                        "total_counts", qc.total_counts),
                                    "pct_counts_mt", qc.pct_counts_mt)]
    /\ Return
    /\ UNCHANGED nextId /\ NoFiles

\* adata.obs.pct_counts_mt < 20
PassesMt(q) == PctLess(q, PctMtMax)

\* adata = adata[adata.obs.pct_counts_mt < 20, :].copy()
FilterMt ==
    /\ Running("filter_mt")
    /\ LET keep == {c \in adata.obs : PassesMt(adata.obsc["pct_counts_mt"][c])}
       IN adata' = CopyOf(SubsetObs(adata, keep), nextId)
    /\ nextId' = nextId + 1
    /\ Return
    /\ NoFiles

\* filter_cells keeps a cell when its number of detected genes >= min_genes
PassesGenes(n) == n >= MinGenes

\* sc.pp.filter_cells(adata, min_genes=300): counts the detected genes of
\* each cell, records them in obs["n_genes"] and subsets the object in place
FilterCells ==
    /\ Running("filter_cells")
    /\ LET ad == Writable(adata)
           n == [c \in ad.obs |-> Detected(ad.X[c], ad.var) + ad.rest[c].genes]
           keep == {c \in ad.obs : PassesGenes(n[c])}
       IN adata' = [SubsetObs([ad EXCEPT !.obsc = Put(@, "n_genes", n)], keep)
                       EXCEPT !.shared = {}]
    /\ Return
    /\ UNCHANGED nextId /\ NoFiles

\* adata = adata[:, ~adata.var["mt"].values]
RemoveMt ==
    /\ Running("remove_mt")
    /\ LET keep == {g \in adata.var : ~adata.varc["mt"][g]}
       IN adata' = ViewOf(SubsetVar(adata, keep), nextId)
    /\ nextId' = nextId + 1
    /\ Return
    /\ NoFiles

\* adata = adata[:, ~adata.var["ribo"].values]
RemoveRibo ==
    /\ Running("remove_ribo")
    /\ LET keep == {g \in adata.var : ~adata.varc["ribo"][g]}
       IN adata' = ViewOf(SubsetVar(adata, keep), nextId)
    /\ nextId' = nextId + 1
    /\ Return
    /\ NoFiles

\* a plot saved in two formats
FigureTwoFormats(path) ==
    {File("pdf", path), File("png", path),
     File("dir", IF nb = 1 THEN "processed_data/figures" ELSE "figures")}

\* the files a plot with save=... writes: scanpy creates the figure
\* directory when it is missing
Figure(path) ==
    {File("pdf", path),
     File("dir", IF nb = 1 THEN "processed_data/figures" ELSE "figures")}

\* sc.pl.violin / sc.pl.umap (..., save=..., show=True)
Plot ==
    /\ Running("plot")
    /\ disk' = disk \cup Figure(Cur.arg)
    \* a plot coloured by a categorical column stores its palette
    /\ adata' = IF Cur.arg = "processed_data/figures/umapclustering.pdf"
                THEN [Writable(adata) EXCEPT !.uns = @ \cup {"leiden_colors"}]
                ELSE adata
    /\ Return
    /\ UNCHANGED <<nextId, cache, reads, result>>

-----------------------------------------------------------------------------
(* Normalisation, log transform, highly variable genes, regression, scaling *)

\* adata.layers[name] = adata.X: the layer is the array of X itself
KeepAlias(ad, name) ==
    [ad EXCEPT !.layers = Put(@, name, ad.X), !.shared = @ \cup {name}]

\* adata.layers[name] = adata.X.copy(): the layer gets an array of its own
KeepCopy(ad, name) ==
    [ad EXCEPT !.layers = Put(@, name, ad.X), !.shared = @ \ {name}]

KeepLayer ==
    /\ Running("keep_layer")
    /\ adata' = KeepCopy(Writable(adata), Cur.arg)
    /\ Return
    /\ UNCHANGED nextId /\ NoFiles

\* the counts of a cell over all its genes; normalize_total divides by 1
\* where they are 0
CountsPerCell(ad, c) ==
    LET t == SumOver(ad.X[c], ad.var) + ad.rest[c].counts
    IN  IF t = 0 THEN 1 ELSE t

\* sc.pp.normalize_total(adata, target_sum=1e4, inplace=True): X in place
NormalizedX(ad) ==
    [c \in ad.obs |-> [g \in ad.var |-> (ad.X[c][g] * TargetSum) \div CountsPerCell(ad, c)]]

NormalizeTotal ==
    /\ Running("normalize_total")
    /\ LET ad == Writable(adata)
       IN adata' = WriteX(ad, NormalizedX(ad))
    /\ Return
    /\ UNCHANGED nextId /\ NoFiles

RECURSIVE ILog2(_)
ILog2(n) == IF n <= 1 THEN 0 ELSE 1 + ILog2(n \div 2)

\* a logarithm with an offset of 2
LogOffsetTwo(x) == ILog2(2 + x)

\* numpy log1p, on the integer scale of the model
Log1pOf(x) == ILog2(1 + x)

\* sc.pp.log1p(adata): X in place, and a note in uns["log1p"]
Log1p ==
    /\ Running("log1p")
    /\ LET ad == Writable(adata)
       IN adata' = [WriteX(ad, [c \in ad.obs |-> [g \in ad.var |-> Log1pOf(ad.X[c][g])]])
                       EXCEPT !.uns = @ \cup {"log1p"}]
    /\ Return
    /\ UNCHANGED nextId /\ NoFiles

\* adata.raw = adata: .raw takes the matrix and the genes of the object as
\* they are.  Whether it takes the array of X itself or a copy of it is the
\* library version's choice.
SetRaw ==
    /\ Running("set_raw")
    /\ \E sharesArray \in BOOLEAN :
         LET ad == Writable(adata)
         IN adata' = [ad EXCEPT !.raw = [set |-> TRUE, var |-> ad.var,
                                         var_rest |-> ad.var_rest, X |-> ad.X],
                                !.shared = IF sharesArray THEN @ \cup {"raw"}
                                           ELSE @ \ {"raw"}]
    /\ Return
    /\ UNCHANGED nextId /\ NoFiles

\* a selection by the cutoffs min_disp, min_mean and max_mean alone, which
\* every gene may pass
HvgByCutoffs(V, n) ==
    {[var |-> hv, rest |-> n] : hv \in {V} \cup {V \ {g} : g \in V}}

\* the selections highly_variable_genes may make with n_top_genes=2000: the
\* genes are ranked by their variance and the first n_top_genes of them are
\* flagged, all of them when the data set has fewer.  Which tracked genes are
\* among them depends on the untracked cells as well; here all of them, or
\* all but one.  A selection is the tracked genes it holds and the number of
\* untracked ones.
HvgSelections(V, n) ==
    LET all == Cardinality(V) + n
        k == IF all <= NTopGenes THEN all ELSE NTopGenes
    IN  {[var |-> hv, rest |-> k - Cardinality(hv)] :
            hv \in {W \in {V} \cup {V \ {g} : g \in V} : k - Cardinality(W) <= n}}

\* subset=False: the selection is only flagged in .var
HvgFlagOnly(ad, hv) ==
    [ad EXCEPT !.varc = Put(@, "highly_variable", [g \in ad.var |-> g \in hv.var]),
               !.uns = @ \cup {"hvg"}]

\* the selection made by rebinding the name: adata = adata[:, selected]
HvgRebind(ad, hv) ==
    [SubsetVar(ad, hv.var) EXCEPT
        !.id = ad.id + 1,
        !.is_view = TRUE,
        !.var_rest = hv.rest,
        !.varc = Put(@, "highly_variable", [g \in hv.var |-> TRUE]),
        !.uns = @ \cup {"hvg"}]

\* subset=True: the object is subset in place to the selected genes, which
\* gives X and the layers new arrays; .raw keeps its genes
HvgSubset(ad, hv) ==
    [SubsetVar(ad, hv.var) EXCEPT
        !.shared = {},
        !.var_rest = hv.rest,
        !.varc = Put(@, "highly_variable", [g \in hv.var |-> TRUE]),
        !.uns = @ \cup {"hvg"}]

\* sc.pp.highly_variable_genes(adata, subset=True, layer='raw',
\*                             flavor='seurat_v3', n_top_genes=2000, ...)
HighlyVariableGenes ==
    /\ Running("highly_variable_genes")
    /\ "raw" \in DOMAIN adata.layers
    /\ \E hv \in HvgSelections(adata.var, adata.var_rest) :
         adata' = HvgSubset(Writable(adata), hv)
    /\ Return
    /\ UNCHANGED nextId /\ NoFiles

\* the fitted values a regression may subtract (the fit depends on the
\* untracked cells as well)
Fits == {0, 1}

\* session 1: sc.pp.regress_out(adata, ["total_counts", "pct_counts_mt"])
KeysToRegress1 == <<"total_counts", "pct_counts_mt">>

\* session 2: var_to_regress = ['n_genes_by_counts','pct_counts_mt']
var_to_regress == <<"n_genes_by_counts", "pct_counts_mt">>

\* the columns of .obs handed to sc.pp.regress_out
KeysToRegress == IF nb = 1 THEN KeysToRegress1 ELSE var_to_regress

\* sc.pp.regress_out(adata, keys): the keys are columns of .obs; X becomes
\* the residuals of the regression on them
RegressOut ==
    /\ Running("regress_out")
    /\ \A i \in 1 .. Len(KeysToRegress) : KeysToRegress[i] \in DOMAIN adata.obsc
    /\ \E fit \in Fits :
         LET ad == Writable(adata)
         IN adata' = WriteX(ad, [c \in ad.obs |-> [g \in ad.var |-> ad.X[c][g] - fit]])
    /\ Return
    /\ UNCHANGED nextId /\ NoFiles

\* a scaling with no max_value
NoClip(x) == x

\* values above max_value are set to max_value
Clip(x) == IF x > MaxValue THEN MaxValue ELSE x

\* values below -max_value are set to -max_value as well
ClipBoth(x) == IF x < -MaxValue THEN -MaxValue ELSE Clip(x)

\* the factors a standardisation may apply to a centred value (mean and
\* variance of a gene depend on the untracked cells as well)
Gains == {-2, 1, 2}

\* sc.pp.scale(adata, max_value=10): X standardised per gene, then clipped
\* at max_value; whether it is clipped at -max_value as well is the library
\* version's choice
Scale ==
    /\ Running("scale")
    /\ \E z \in Gains, bothSides \in BOOLEAN :
         LET ad == Writable(adata)
             clipped(x) == IF bothSides THEN ClipBoth(x) ELSE Clip(x)
         IN adata' = WriteX(ad, [c \in ad.obs |-> [g \in ad.var |-> clipped(z * ad.X[c][g])]])
    /\ Return
    /\ UNCHANGED nextId /\ NoFiles

-----------------------------------------------------------------------------
(* Dimension reduction, integration, clustering *)

\* sc.tl.pca(adata, svd_solver='arpack', ...)
Pca ==
    /\ Running("pca")
    /\ adata' = [Writable(adata) EXCEPT
                    !.obsm = Put(@, "X_pca", Array(CellOrder(adata.obs), PCs, "pca")),
                                        !.uns = @ \cup {"pca"}]
    /\ Return
    /\ UNCHANGED nextId /\ NoFiles

\* sc.pp.neighbors(adata, n_neighbors=..., n_pcs=..., [use_rep=...])
Neighbors ==
    /\ Running("neighbors")
    /\ Cur.arg \in DOMAIN adata.obsm
    /\ adata' = [Writable(adata) EXCEPT !.uns = @ \cup {"neighbors"}]
    /\ Return
    /\ UNCHANGED nextId /\ NoFiles

\* sc.tl.umap(adata, ...)
Umap ==
    /\ Running("umap")
    /\ "neighbors" \in adata.uns
    /\ adata' = [Writable(adata) EXCEPT
                    !.obsm = Put(@, "X_umap", Array(CellOrder(adata.obs), UmapDims, "umap")),
                                        !.uns = @ \cup {"umap"}]
    /\ Return
    /\ UNCHANGED nextId /\ NoFiles

\* a loop that runs one round more than max_iter_harmony
OneRoundMore(h) == ~h.converged /\ h.iter <= max_iter_harmony

\* run_harmony repeats its round while it has not converged and has run
\* fewer than max_iter_harmony rounds
MoreRounds(h) == ~h.converged /\ h.iter < max_iter_harmony

\* ho = hm.run_harmony(adata.obsm['X_pca'], adata.obs, cat_var_to_regress,
\*                     max_iter_harmony=20)
\* one round: cluster the cells, correct the components, check convergence
HarmonyRound ==
    /\ Running("harmony")
    /\ "X_pca" \in DOMAIN adata.obsm
    /\ MoreRounds(call)
    /\ \E c \in BOOLEAN : call' = [iter |-> call.iter + 1, converged |-> c]
    /\ UNCHANGED <<nb, pc, executing, status, input, adata, nextId, hist>>
    /\ NoFiles

\* ho.Z_corr: the corrected components, one row per component and one
\* column per cell
Z_corr(data_mat) == [Transpose(data_mat) EXCEPT !.values = "corrected"]

\* the corrected components stored in place of the components of the PCA
StoreOverPca(ad, a) == [ad EXCEPT !.obsm = Put(@, "X_pca", a)]

\* adata.obsm['X_pca_harmony'] = ...
StoreCorrected(ad, a) == [ad EXCEPT !.obsm = Put(@, "X_pca_harmony", a)]

\* adata.obsm['X_pca_harmony'] = np.transpose(ho.Z_corr), once the rounds
\* are over; .obsm takes an array only when it has one row per cell
Harmony ==
    /\ Running("harmony")
    /\ "X_pca" \in DOMAIN adata.obsm
    /\ ~MoreRounds(call)
    /\ LET corrected == Transpose(Z_corr(adata.obsm["X_pca"]))
       IN  /\ corrected.rows = CellOrder(adata.obs)
           /\ adata' = StoreCorrected(Writable(adata), corrected)
    /\ Return
    /\ UNCHANGED nextId /\ NoFiles

\* the cluster labels of the tracked cells
Clusters == {"0", "2"}

\* sc.tl.leiden(adata, resolution=...): a label per cell in obs['leiden']
Leiden ==
    /\ Running("leiden")
    /\ "neighbors" \in adata.uns
    /\ \E lab \in [adata.obs -> Clusters] :
         adata' = [Writable(adata) EXCEPT !.obsc = Put(@, "leiden", lab),
                                          !.uns = @ \cup {"leiden"}]
    /\ Return
    /\ UNCHANGED nextId /\ NoFiles

-----------------------------------------------------------------------------
(* Marker genes, annotation, subsetting, saving *)

\* sc.tl.rank_genes_groups(adata, 'leiden', method='wilcoxon', use_raw=True,
\*                         key_added=...)
RankGenesGroups ==
    /\ Running("rank_genes_groups")
    /\ "leiden" \in DOMAIN adata.obsc
    /\ adata.raw.set
    /\ adata' = [Writable(adata) EXCEPT !.uns = @ \cup {Cur.arg}]
    /\ Return
    /\ UNCHANGED nextId /\ NoFiles

\* with pd.ExcelWriter(path) as writer: one sheet per cluster
Excel ==
    /\ Running("excel")
    /\ \E k \in adata.uns : k \in {"rank_genes_wilcoxon", "rank_genes_groups",
                                   "rank_genes_groups_T"}
    /\ disk' = disk \cup {File("xlsx", Cur.arg)}
    /\ Return
    /\ UNCHANGED <<adata, nextId, cache, reads, result>>

\* sc.pl.rank_genes_groups_dotplot(..., save=...): the plot orders the
\* groups by a dendrogram, which it computes and stores when there is none
Dotplot ==
    /\ Running("dotplot")
    /\ disk' = disk \cup Figure(Cur.arg)
    /\ adata' = IF "dendrogram_leiden" \in adata.uns THEN adata
                ELSE [Writable(adata) EXCEPT !.uns = @ \cup {"dendrogram_leiden"}]
    /\ Return
    /\ UNCHANGED <<nextId, cache, reads, result>>

\* new_cluster_annotations (session 1)
Annotations1 == ("0" :> "CD4 T cell") @@ ("2" :> "B cell")

\* annotation_dict of the first annotation (session 2)
Annotations2 == ("0" :> "T-NK-ILC") @@ ("2" :> "Myeloid")

\* annotation_dict of the T-NK-ILC annotation (session 2): no entry for '2'
Annotations2T == ("0" :> "CD4+ T")

AnnotationDict ==
    IF nb = 1 THEN Annotations1
    ELSE IF "rank_genes_groups_T" \in adata.uns THEN Annotations2T
    ELSE Annotations2

\* Series.map(dict): a label the dict lacks maps to NaN
MapLabel(d, l) == IF l \in DOMAIN d THEN d[l] ELSE "NaN"

\* adata.obs[col] = adata.obs['leiden'].map(dict).astype('category')
Annotate ==
    /\ Running("annotate")
    /\ "leiden" \in DOMAIN adata.obsc
    /\ LET ad == Writable(adata)
       IN adata' = [ad EXCEPT !.obsc =
                       Put(@, Cur.arg, [c \in ad.obs |->
                              MapLabel(AnnotationDict, ad.obsc["leiden"][c])])]
    /\ Return
    /\ UNCHANGED nextId /\ NoFiles

\* adata.uns["Annotation_colors"] = list(pal_dict.values())
SetColors ==
    /\ Running("set_colors")
    /\ adata' = [Writable(adata) EXCEPT !.uns = @ \cup {Cur.arg}]
    /\ Return
    /\ UNCHANGED nextId /\ NoFiles

\* adata = adata[adata.obs['Cell_type']=='T-NK-ILC']
Subset ==
    /\ Running("subset")
    /\ "Cell_type" \in DOMAIN adata.obsc
    /\ LET keep == {c \in adata.obs : adata.obsc["Cell_type"][c] = Cur.arg}
       IN adata' = ViewOf(SubsetObs(adata, keep), nextId)
    /\ nextId' = nextId + 1
    /\ Return
    /\ NoFiles

\* del(adata.uns['dendrogram_leiden'])
DelDendrogram ==
    /\ Running("del_dendrogram")
    /\ Cur.arg \in adata.uns
    /\ adata' = [Writable(adata) EXCEPT !.uns = @ \ {Cur.arg}]
    /\ Return
    /\ UNCHANGED nextId /\ NoFiles

\* a write that also notes the path of the file in the object
WriteAndNote ==
    /\ Running("write")
    /\ result' = [written |-> TRUE, path |-> Cur.arg, data |-> adata]
    /\ adata' = [adata EXCEPT !.uns = @ \cup {"saved_to"}]
    /\ disk' = disk \cup {File("h5ad", Cur.arg)}
    /\ pc' = pc + 1
    /\ executing' = {}
    /\ hist' = [hist EXCEPT !.finished = @ \cup {Cur.phase}, !.writes = @ + 1]
    /\ UNCHANGED <<nb, status, input, nextId, cache, reads, call>>

\* adata.write(path): the object as it is goes to the .h5ad file
Write ==
    /\ Running("write")
    /\ result' = [written |-> TRUE, path |-> Cur.arg, data |-> adata]
    /\ disk' = disk \cup {File("h5ad", Cur.arg)}
    /\ pc' = pc + 1
    /\ executing' = {}
    /\ hist' = [hist EXCEPT !.finished = @ \cup {Cur.phase}, !.writes = @ + 1]
    /\ UNCHANGED <<nb, status, input, adata, nextId, cache, reads, call>>

-----------------------------------------------------------------------------

Next ==
    \/ Begin
    \/ Raise
    \/ Mkdir
    \/ Read10x
    \/ ReadH5ad
    \/ MakeUnique
    \/ FlagGenes
    \/ QcMetrics
    \/ Plot
    \/ FilterMt
    \/ FilterCells
    \/ RemoveMt
    \/ RemoveRibo
    \/ KeepLayer
    \/ NormalizeTotal
    \/ Log1p
    \/ SetRaw
    \/ HighlyVariableGenes
    \/ RegressOut
    \/ Scale
    \/ Pca
    \/ Neighbors
    \/ Umap
    \/ HarmonyRound
    \/ Harmony
    \/ Leiden
    \/ RankGenesGroups
    \/ Excel
    \/ Dotplot
    \/ Annotate
    \/ SetColors
    \/ Subset
    \/ DelDendrogram
    \/ Write

Spec == Init /\ [][Next]_vars

\* a statement that has begun keeps executing, and the kernel begins the
\* next statement when one has returned: the run does not stop while a step
\* is possible
FairSpec == Spec /\ WF_vars(Next)

-----------------------------------------------------------------------------
(* Properties *)

\* some statement with operation o has returned
AfterOp(o) == \E i \in 1 .. pc - 1 : Program[i].op = o

\* the pipeline of the overview, in its order
Pipeline == <<"load", "filter", "normalize", "reduce", "integrate", "cluster",
              "annotate", "save">>

InPipeline(ph) == \E i \in 1 .. Len(Pipeline) : Pipeline[i] = ph
Pos(ph) == CHOOSE i \in 1 .. Len(Pipeline) : Pipeline[i] = ph

\* the pipeline phases in the order in which the run first started them
Started == SelectSeq(hist.order, InPipeline)

\* C1 as stated: the run starts the phases load, filter, normalize, reduce,
\* integrate, cluster, annotate, save one after the other, each after the one
\* before it in this list has completed a step, a complete run has performed
\* all of them, and nothing runs once save has completed.
C1_FixedOrder ==
    /\ Len(Started) <= Len(Pipeline)
    /\ \A i \in 1 .. Len(Started) :
          /\ Started[i] = Pipeline[i]
          /\ i > 1 => Pipeline[i - 1] \in hist.finished
    /\ Done => Len(Started) = Len(Pipeline)
    /\ "save" \in hist.finished => Done

\* C1 amended: the phases a notebook performs first start in the order of
\* the list, each after a statement of the phase started before it has
\* returned; session 1 performs no integrate phase and session 2 no filter
\* phase (its T-NK-ILC subsetting follows the first annotation); save is the
\* last statement, and nothing runs once it has returned.
C1_OrderOfFirstStarts ==
    /\ \A i \in 2 .. Len(Started) :
          /\ Pos(Started[i - 1]) < Pos(Started[i])
          /\ Started[i - 1] \in hist.finished
    /\ Done => Started = IF nb = 1
                         THEN <<"load", "filter", "normalize", "reduce", "cluster",
                                "annotate", "save">>
                         ELSE <<"load", "normalize", "reduce", "integrate", "cluster",
                                "annotate", "save">>
    /\ "subset" \in hist.finished => nb = 2 /\ "annotate" \in hist.finished
    /\ "save" \in hist.finished => Done

\* a complete run of session 2 that went through integrate and subsetting
C1_Witness ==
    /\ Done
    /\ nb = 2
    /\ {"integrate", "subset", "save"} \subseteq hist.finished
    /\ adata.obs # {}

\* C2: adata.write runs exactly once, as the last statement, and when the
\* run is complete the file holds the object as it is in memory.
C2_WrittenOnceAtEnd ==
    /\ hist.writes <= 1
    /\ result.written <=> hist.writes = 1
    /\ result.written => Done /\ result.data = adata
    /\ Done => result.written /\ File("h5ad", result.path) \in disk

\* a complete run whose result holds cells, layers and .raw
C2_Witness ==
    /\ Done
    /\ result.written
    /\ result.data.obs # {}
    /\ result.data.raw.set
    /\ "raw" \in DOMAIN result.data.layers

\* the statements that bind the name `adata` to a new object
Rebinding == {"filter_mt", "remove_mt", "remove_ribo", "subset"}

\* C3 as stated: once loaded, the name `adata` is bound to one object for
\* the whole run.
C3_SingleObject == [][adata.id # 0 => adata'.id = adata.id]_vars

\* C3 amended: after the load, a statement binds `adata` to a new object
\* exactly when it is the mitochondrial-percentage filter (a copy), the
\* removal of the mt or of the ribo genes, or the T-NK-ILC subsetting (a view
\* of the object before); every other statement leaves the binding alone.
C3_RebindingSteps ==
    [][(adata.id # 0 /\ pc' = pc + 1) =>
          /\ (adata'.id # adata.id) <=> (Cur.op \in Rebinding)
          /\ (adata'.id # adata.id) => (adata'.is_view <=> Cur.op # "filter_mt")
          /\ (adata'.id = adata.id) => ~adata'.is_view]_vars

\* session 1 is complete: the filter copied, the two gene removals made
\* views, and the statements after them changed the last view in place
C3_Witness ==
    /\ Done
    /\ nb = 1
    /\ adata.id = 4
    /\ ~adata.is_view
    /\ adata.obs # {}

\* C4: a run that has failed takes no further step (the statement that
\* raised is not run again, no later statement runs), and a failed run has
\* written no .h5ad result file.
C4_StopsAtError ==
    [][/\ status = "failed" => UNCHANGED vars
       /\ status' = "failed" =>
             /\ pc' = pc
             /\ executing' = {}
             /\ ~result'.written
             /\ \A f \in disk' : f.kind # "h5ad"]_vars

\* a run that failed in the statement that exports the marker genes to Excel
C4_Witness ==
    /\ status = "failed"
    /\ pc <= Len(Program)
    /\ Cur.op = "excel"
    /\ adata.obs # {}

\* C5 as stated: a run reads only 10x directories and .h5ad matrices, and
\* writes only Excel spreadsheets and the .h5ad result file.
C5_OnlyExcelAndH5ad ==
    /\ \A f \in reads : f.kind \in {"10x", "h5ad"}
    /\ \A f \in disk : f.kind \in {"xlsx", "h5ad"}

Count(k) == Cardinality({f \in disk : f.kind = k})

\* C5 amended: a run reads only its input matrices (session 1 the 10x
\* directory and the cache file an earlier run left, session 2 the .h5ad
\* file); besides the Excel spreadsheets and the .h5ad result file it writes
\* a PDF file per plot called with save= (5 in session 1, 2 in session 2),
\* the directories processed_data and processed_data/figures (session 1) or
\* figures (session 2) and, in session 1 when no cache file exists, the
\* directory cache with the cache file of sc.read_10x_mtx; nothing else.
C5_FilesOfARun ==
    /\ \A f \in reads :
          /\ f.kind \in {"10x", "h5ad", "cache"}
          /\ f.kind = "10x" => nb = 1
          /\ f.kind = "h5ad" => nb = 2
          /\ f.kind = "cache" => nb = 1 /\ f = CacheFile /\ f \notin disk
    /\ \A f \in disk :
          /\ f.kind \in {"xlsx", "h5ad", "pdf", "dir", "cache"}
          /\ f.kind = "h5ad" => result.written /\ f.path = result.path
          /\ f.kind = "cache" => nb = 1 /\ f = CacheFile
          /\ f.kind = "dir" =>
                f.path \in (IF nb = 1
                            THEN {"processed_data", "processed_data/figures", "cache"}
                            ELSE {"figures"})
    /\ Done => /\ Count("xlsx") = nb
               /\ Count("pdf") = (IF nb = 1 THEN 5 ELSE 2)
               /\ Count("h5ad") = 1

\* a complete run of session 1 that wrote the cache file and its figures
C5_Witness ==
    /\ Done
    /\ nb = 1
    /\ CacheFile \in disk
    /\ File("pdf", "processed_data/figures/umapclustering.pdf") \in disk
    /\ File("dir", "processed_data/figures") \in disk

\* C6: at most one statement is executing, and it is the one the kernel is
\* at: every statement before it has returned, none after it has begun.
C6_OneStepAtATime ==
    /\ Cardinality(executing) <= 1
    /\ \A s \in executing : s = pc

\* normalize_total of session 2 is executing
C6_Witness ==
    /\ nb = 2
    /\ executing = {pc}
    /\ Cur.op = "normalize_total"

\* C7: layer 'raw' is set before the matrix is normalised, and from then on
\* holds, for every cell and gene still present, the count that was loaded.
C7_RawLayerKeepsCounts ==
    /\ ("normalised" \in DOMAIN adata.layers \/ "log1p" \in adata.uns)
          => "raw" \in DOMAIN adata.layers
    /\ "raw" \in DOMAIN adata.layers =>
          /\ DOMAIN adata.layers["raw"] = adata.obs
          /\ \A c \in adata.obs :
                /\ DOMAIN adata.layers["raw"][c] = adata.var
                /\ \A g \in adata.var : adata.layers["raw"][c][g] = input[c].counts[g]

\* a complete run in which the main matrix differs from a nonzero count
C7_Witness ==
    /\ Done
    /\ "raw" \in DOMAIN adata.layers
    /\ \E c \in adata.obs : \E g \in adata.var :
          /\ adata.layers["raw"][c][g] > 0
          /\ adata.X[c][g] # adata.layers["raw"][c][g]

\* the genes of the object when `adata.raw = adata` runs
RawGenes == IF nb = 1 THEN {MRPS5, MTOR, CD3D} ELSE Genes

\* the normalised, log-transformed value of a loaded count
LogNormalised(c, g) ==
    Log1pOf((input[c].counts[g] * TargetSum)
            \div (SumOver(input[c].counts, RawGenes) + input[c].rest))

\* C8: once set, .raw holds the normalised, log-transformed matrix over the
\* genes the object had when it was set, whatever later statements do to
\* the main matrix.
C8_RawFrozen ==
    adata.raw.set =>
        /\ adata.raw.var = RawGenes
        /\ DOMAIN adata.raw.X = adata.obs
        /\ \A c \in adata.obs :
              /\ DOMAIN adata.raw.X[c] = RawGenes
              /\ \A g \in RawGenes : adata.raw.X[c][g] = LogNormalised(c, g)

\* a complete run in which the main matrix lost a gene of .raw and holds
\* another value than .raw
C8_Witness ==
    /\ Done
    /\ adata.raw.set
    /\ adata.var # adata.raw.var
    /\ \E c \in adata.obs : \E g \in adata.var : adata.X[c][g] # adata.raw.X[c][g]

\* C9 as stated: after the QC cell filter of session 1 a loaded cell is
\* retained exactly when its percentage of mitochondrial counts is at most
\* 20 and its number of detected genes is at least 300.
C9_QcFilter ==
    (nb = 1 /\ AfterOp("filter_cells")) =>
        \A c \in Cells :
            c \in adata.obs <=>
                /\ 100 * ProfMt(input[c]) <= PctMtMax * ProfTotal(input[c])
                /\ ProfNGenes(input[c]) >= MinGenes

NamedMtOrRibo(g) ==
    /\ Len(g) >= 3
    /\ \/ g[1] = "M" /\ g[2] = "T" /\ g[3] = "-"
       \/ g[1] = "R" /\ g[2] = "P" /\ g[3] \in {"S", "L"}

\* C10: after the removal of the mt and ribo genes in session 1 no gene of
\* the object is named MT-..., RPS... or RPL...; until the selection of the
\* highly variable genes every other loaded gene is present; and the two
\* removals leave the cells as they are.
C10_MtRiboRemoved ==
    /\ [](nb = 1 /\ AfterOp("remove_ribo") =>
             /\ \A g \in adata.var : ~NamedMtOrRibo(g)
             /\ ~AfterOp("highly_variable_genes") =>
                   \A g \in Genes : ~NamedMtOrRibo(g) => g \in adata.var)
    /\ [][(Cur.op \in {"remove_mt", "remove_ribo"} /\ pc' = pc + 1)
             => adata'.obs = adata.obs]_vars

\* the removals have run on an object with cells: MRPS5 and MTOR, whose
\* names only resemble the prefixes, are kept
C10_Witness ==
    /\ nb = 1
    /\ AfterOp("remove_ribo")
    /\ ~AfterOp("highly_variable_genes")
    /\ adata.var = {MRPS5, MTOR, CD3D}
    /\ adata.obs # {}

\* C11: every entry that is zero in the loaded counts is zero in layer
\* 'normalised', in layer 'log1p' and in .raw, for every cell of the object
\* and every gene the layer or .raw holds.
C11_ZeroStaysZero ==
    \A c \in adata.obs :
        /\ \A l \in {"normalised", "log1p"} \cap DOMAIN adata.layers :
              \A g \in DOMAIN adata.layers[l][c] :
                  input[c].counts[g] = 0 => adata.layers[l][c][g] = 0
        /\ adata.raw.set =>
              \A g \in adata.raw.var :
                  input[c].counts[g] = 0 => adata.raw.X[c][g] = 0

\* the two layers and .raw are set, and a cell holds in them a zero for a
\* gene it has no count of and a positive value for a gene it has counts of
C11_Witness ==
    /\ {"normalised", "log1p"} \subseteq DOMAIN adata.layers
    /\ adata.raw.set
    /\ \E c \in adata.obs : \E g, h \in adata.var :
          /\ input[c].counts[g] = 0
          /\ adata.layers["log1p"][c][g] = 0
          /\ adata.raw.X[c][g] = 0
          /\ input[c].counts[h] > 0
          /\ adata.layers["normalised"][c][h] > 0
          /\ adata.layers["log1p"][c][h] > 0
          /\ adata.raw.X[c][h] > 0

\* C12: once the highly variable genes are selected the main matrix holds at
\* most n_top_genes = 2000 genes; the selection keeps only genes the matrix
\* had before it, leaves the cells as they are, and leaves .raw with all the
\* genes the matrix had before it.
C12_HvgSubset ==
    /\ [](AfterOp("highly_variable_genes") =>
             /\ Cardinality(adata.var) + adata.var_rest <= NTopGenes
             /\ \A c \in adata.obs : DOMAIN adata.X[c] = adata.var
             /\ adata.var \subseteq adata.raw.var
             /\ adata.var_rest <= adata.raw.var_rest)
    /\ [][(Cur.op = "highly_variable_genes" /\ pc' = pc + 1) =>
             /\ adata'.var \subseteq adata.var
             /\ adata'.var_rest <= adata.var_rest
             /\ adata'.obs = adata.obs
             /\ adata'.raw.set
             /\ adata'.raw.var = adata.var
             /\ adata'.raw.var_rest = adata.var_rest]_vars

\* the selection has run on a data set of more than 2000 genes: the main
\* matrix holds 2000 of them, a tracked gene is not among them, and .raw
\* holds them all
C12_Witness ==
    /\ AfterOp("highly_variable_genes")
    /\ adata.obs # {}
    /\ Cardinality(adata.var) + adata.var_rest = NTopGenes
    /\ Cardinality(adata.raw.var) + adata.raw.var_rest > NTopGenes
    /\ adata.var # adata.raw.var

\* C13 as stated: in both notebooks the covariates that regress_out has
\* regressed out of the main matrix are the total counts per cell and the
\* percentage of mitochondrial counts per cell.
C13_RegressedCovariates ==
    AfterOp("regress_out") =>
        {KeysToRegress[i] : i \in 1 .. Len(KeysToRegress)}
            = {"total_counts", "pct_counts_mt"}

\* C14: once sc.pp.scale(adata, max_value=10) has run, every value of the
\* main matrix is at most 10, in that state and in every later one.
C14_ScaledAtMostMax ==
    AfterOp("scale") =>
        \A c \in adata.obs : \A g \in adata.var : adata.X[c][g] <= MaxValue

\* a complete run whose main matrix holds a value the scaling clipped to 10
\* and a value below it
C14_Witness ==
    /\ Done
    /\ \E c \in adata.obs : \E g, h \in adata.var :
          /\ adata.X[c][g] = MaxValue
          /\ adata.X[c][h] < MaxValue
          /\ adata.raw.X[c][g] > adata.raw.X[c][h]

\* C15: the Harmony step stores the corrected components in
\* obsm['X_pca_harmony'], with the rows (one per cell, in the order of the
\* cells) and the columns (one per principal component) of obsm['X_pca'];
\* it leaves obsm['X_pca'], every other key of .obsm and every other field
\* of the object as they were.
C15_HarmonyFrame ==
    [][Cur.op = "harmony" =>
          /\ [adata' EXCEPT !.obsm = adata.obsm] = adata
          /\ \A k \in DOMAIN adata.obsm \ {"X_pca_harmony"} :
                k \in DOMAIN adata'.obsm /\ adata'.obsm[k] = adata.obsm[k]
          /\ pc' = pc + 1 =>
                /\ DOMAIN adata'.obsm = DOMAIN adata.obsm \cup {"X_pca_harmony"}
                /\ adata'.obsm["X_pca_harmony"].values = "corrected"
                /\ adata'.obsm["X_pca_harmony"].rows = CellOrder(adata.obs)
                /\ adata'.obsm["X_pca_harmony"].rows = adata.obsm["X_pca"].rows
                /\ adata'.obsm["X_pca_harmony"].cols = adata.obsm["X_pca"].cols]_vars

\* the Harmony step has just returned: .obsm holds the components of the
\* PCA, the UMAP computed before, and the corrected components of all cells
C15_Witness ==
    /\ nb = 2
    /\ status = "ok"
    /\ executing = {}
    /\ pc > 1
    /\ Program[pc - 1].op = "harmony"
    /\ DOMAIN adata.obsm = {"X_pca", "X_umap", "X_pca_harmony"}
    /\ adata.obsm["X_pca"].values = "pca"
    /\ adata.obsm["X_pca_harmony"].values = "corrected"
    /\ Len(adata.obsm["X_pca_harmony"].rows) = NCells
    /\ adata.obsm["X_pca_harmony"].cols = PCs

\* the neighbour-graph step on the corrected components is executing
AtNeighborsOfHarmony == Running("neighbors") /\ Cur.arg = "X_pca_harmony"

\* C16: the Harmony step repeats its round at most max_iter_harmony = 20
\* times, and it always ends: the run then goes on to the neighbour-graph
\* step on the corrected components (or the step has raised, which ends the
\* run).
C16_HarmonyTerminates ==
    /\ [](call.iter <= max_iter_harmony)
    /\ [](call.iter > 0 => Running("harmony"))
    /\ Running("harmony") ~> (AtNeighborsOfHarmony \/ status = "failed")

\* the Harmony step has run all its 20 rounds without converging
C16_Witness ==
    /\ Running("harmony")
    /\ call.iter = max_iter_harmony
    /\ ~call.converged
    /\ adata.obs # {}

\* the Excel workbooks of the export statements that have returned
Exported == {File("xlsx", Program[i].arg) : i \in {j \in 1 .. pc - 1 : Program[j].op = "excel"}}

\* C17: a workbook written by an Excel export stays on disk whatever happens
\* later: no statement and no failure removes a file the run has written; a
\* run that failed after an export still has the workbooks on disk, and has
\* no .h5ad result file.
C17_ExcelKeptOnFailure ==
    /\ [](Exported \subseteq disk)
    /\ [](status = "failed" =>
             /\ ~result.written
             /\ \A f \in disk : f.kind # "h5ad")
    /\ [][disk \subseteq disk']_vars

\* session 2 failed in adata.write, its last statement: both workbooks are
\* on disk and there is no result file
C17_Witness ==
    /\ nb = 2
    /\ status = "failed"
    /\ pc = Len(Program)
    /\ Cur.op = "write"
    /\ Exported = {File("xlsx", "DE_results_cellType.xlsx"),
                   File("xlsx", "DE_results_TNKILC.xlsx")}
    /\ Exported \subseteq disk
    /\ ~result.written

=============================================================================
